---- MODULE Spec2Model ----
(***************************************************************************)
(* Inventory-Management: the stock-movement ledger of app/database.py.     *)
(*                                                                         *)
(* The store is a MySQL database reached through DatabaseManager, one      *)
(* connection per DatabaseManager instance.  Each element of Sessions is   *)
(* one DatabaseManager (one application process) working on the shared     *)
(* store.  A call of create_product or create_stock_movement is a          *)
(* sequence of steps, one per statement sent to the store, so that calls   *)
(* of different sessions interleave between statements.                    *)
(*                                                                         *)
(* A statement run by _execute_query reads the committed rows plus the     *)
(* session's own uncommitted writes.  A write statement run while          *)
(* autocommit is off stays in the session's transaction (pending) until    *)
(* commit() makes it durable or rollback() discards it; with autocommit    *)
(* on it is durable as soon as it is executed.  Every statement may fail   *)
(* with mysql.connector.Error (a storage failure).                         *)
(*                                                                         *)
(* Spec is one application process as main.py drives it; ConcSpec is two    *)
(* processes on one store; CoreSpec adds direct calls of the public method *)
(* update_product_stock; ReportSpec applies the read-only report queries   *)
(* and Product.get_stock_status to tables drawn from bounded sets;         *)
(* HttpSpec is one process serving PUT /products/{id}/stock; ReadSpec is   *)
(* one process running the queries between its writing calls.              *)
(*                                                                         *)
(* Not modelled: timestamps other than the month of a movement_date,       *)
(* category and supplier rows, free-text fields, the transaction           *)
(* isolation of the store between connections.                             *)
(***************************************************************************)
EXTENDS Integers, Sequences, FiniteSets, TLC

\* ------------------------------------------------------------------ bounds
MaxProducts == 2      \* create_product is offered while fewer ids were handed out
MaxMovements == 2     \* create_stock_movement likewise
MaxCalls == 3         \* calls started in a behaviour of ConcSpec; direct calls in CoreSpec

Sessions == {1, 2}

\* ------------------------------------------------------------ model values
ValidTypes == {"IN", "OUT", "ADJUSTMENT"}

\* A column that may be NULL is <<>> (NULL) or <<v>>.
NULL == <<>>

NoProduct == [product_id |-> 0, product_name |-> <<>>, product_code |-> <<>>,
              unit_price |-> 0, current_stock |-> 0, minimum_stock |-> 0,
              maximum_stock |-> 0, is_active |-> FALSE,
              category_id |-> NULL, supplier_id |-> NULL]

NoMovement == [movement_id |-> 0, product_id |-> 0, movement_type |-> "",
               quantity |-> 0]


NoPending == [products |-> {}, movements |-> {}, stock |-> {}]

NoResult == [error_code |-> "NONE", at |-> "", id |-> 0, product_name |-> <<>>,
             product_code |-> <<>>, available |-> 0, requested |-> 0]

\* No direct update_product_stock call is in progress.
NoArgs == [product_id |-> 0, new_stock |-> 0]

\* No stock-update request is being served.
NoRequest == [phase |-> "none", product_id |-> 0, quantity |-> 0, old_stock |-> 0,
              new_stock |-> 0]

\* No report query has run.
NoReport == [products |-> {}, movements |-> {}, product |-> NoProduct, year |-> 0,
             month |-> 0, op |-> "none", error_code |-> "NONE", out |-> <<>>, args |-> <<>>]

\* The value a call hands back: a generated id ...
Returned(id) == [NoResult EXCEPT !.error_code = "OK", !.id = id]
\* ... or the exception it raises, named by its error_code (exceptions.py), and
\* the step of the call that raised it.
Raised(code, at) == [NoResult EXCEPT !.error_code = code, !.at = at]

VARIABLES
    products,          \* committed rows of table products
    movements,         \* committed rows of table stock_movements
    next_product_id,   \* AUTO_INCREMENT of products
    next_movement_id,  \* AUTO_INCREMENT of stock_movements
    autocommit,        \* autocommit[s]: connection.autocommit of session s
    pending,           \* pending[s]: uncommitted writes of session s's transaction
    pc,                \* pc[s]: where session s stands in its current call
    product,           \* product[s]: argument of create_product
    movement,          \* movement[s]: argument of create_stock_movement
    new_stock,         \* new_stock[s]: local of create_stock_movement
    last_insert_id,    \* last_insert_id[s]: cursor.lastrowid of the last INSERT
    result,            \* result[s]: what the finished call returned or raised
    pre,               \* pre[s]: the committed store when the call started (history)
    created,           \* the product rows as they were inserted (history)
    calls,             \* calls started so far (bounds the concurrent specification)
    report,            \* the input and the output of the last report query
    update_args,       \* update_args[s]: arguments of a direct update_product_stock call
    request            \* request[s]: the PUT /products/{id}/stock request being served

vars == <<products, movements, next_product_id, next_movement_id, autocommit,
          pending, pc, product, movement, new_stock, last_insert_id, result,
          pre, created, calls, report, update_args, request>>

\* ------------------------------------------------------------ models.py
Blank == " "

RECURSIVE lstrip(_)
lstrip(str) ==
    IF str # <<>> /\ Head(str) = Blank THEN lstrip(Tail(str)) ELSE str

RECURSIVE rstrip(_)
rstrip(str) ==
    IF str # <<>> /\ str[Len(str)] = Blank
    THEN rstrip(SubSeq(str, 1, Len(str) - 1))
    ELSE str

\* str.strip()
strip(str) == rstrip(lstrip(str))

\* Product.validate without its current_stock test
Product_validate_no_stock_test(p) ==
    /\ ~(p.product_name = <<>> \/ Len(strip(p.product_name)) = 0)
    /\ ~(p.product_code = <<>> \/ Len(strip(p.product_code)) = 0)
    /\ ~(p.unit_price <= 0)
    /\ ~(p.minimum_stock < 0)
    /\ ~(p.maximum_stock <= p.minimum_stock)

\* Product.validate without its maximum_stock test
Product_validate_no_threshold_test(p) ==
    /\ ~(p.product_name = <<>> \/ Len(strip(p.product_name)) = 0)
    /\ ~(p.product_code = <<>> \/ Len(strip(p.product_code)) = 0)
    /\ ~(p.unit_price <= 0)
    /\ ~(p.current_stock < 0)
    /\ ~(p.minimum_stock < 0)

\* Product.validate testing the name and the code without strip()
Product_validate_no_strip(p) ==
    /\ ~(p.product_name = <<>>)
    /\ ~(p.product_code = <<>>)
    /\ ~(p.unit_price <= 0)
    /\ ~(p.current_stock < 0)
    /\ ~(p.minimum_stock < 0)
    /\ ~(p.maximum_stock <= p.minimum_stock)

\* Product.validate: TRUE when no ValueError is raised
Product_validate(p) ==
    /\ ~(p.product_name = <<>> \/ Len(strip(p.product_name)) = 0)
    /\ ~(p.product_code = <<>> \/ Len(strip(p.product_code)) = 0)
    /\ ~(p.unit_price <= 0)
    /\ ~(p.current_stock < 0)
    /\ ~(p.minimum_stock < 0)
    /\ ~(p.maximum_stock <= p.minimum_stock)

\* StockMovement.validate without its product_id test
StockMovement_validate_no_product_test(m) ==
    /\ m.movement_type \in ValidTypes
    /\ ~(m.quantity <= 0)

\* StockMovement.validate: TRUE when no ValueError is raised
StockMovement_validate(m) ==
    /\ m.movement_type \in ValidTypes
    /\ ~(m.quantity <= 0)
    /\ ~(m.product_id <= 0)

\* get_stock_change with ADJUSTMENT taken as a reduction
get_stock_change_adjustment_reduces(m) ==
    IF m.movement_type = "IN" THEN m.quantity ELSE 0 - m.quantity

\* get_stock_change with the sign of OUT lost
get_stock_change_unsigned(m) == m.quantity

\* StockMovement.get_stock_change
get_stock_change(m) ==
    IF m.movement_type = "IN" THEN m.quantity
    ELSE IF m.movement_type = "OUT" THEN 0 - m.quantity
    ELSE m.quantity

\* StockMovement.is_stock_increase
is_stock_increase(m) == m.movement_type \in {"IN", "ADJUSTMENT"} /\ m.quantity > 0

\* StockMovement.is_stock_decrease
is_stock_decrease(m) ==
    m.movement_type = "OUT" \/ (m.movement_type = "ADJUSTMENT" /\ m.quantity < 0)

\* abs()
abs(n) == IF n < 0 THEN 0 - n ELSE n

\* ------------------------------------------------------------ the store
\* UPDATE products SET current_stock = ... WHERE product_id = ...
ApplyStock(rows, updates) ==
    { IF \E u \in updates : u.product_id = p.product_id
      THEN [p EXCEPT !.current_stock =
                (CHOOSE u \in updates : u.product_id = p.product_id).current_stock]
      ELSE p : p \in rows }

\* The rows of products a statement of session s reads: the committed rows and
\* the session's own uncommitted writes.
ProductsSeen(s) == ApplyStock(products \cup pending[s].products, pending[s].stock)

\* the product SELECT with its WHERE clause lost
SelectProduct_any(s, product_id) == ProductsSeen(s)

\* SELECT ... FROM products p WHERE p.product_id = %s
SelectProduct(s, product_id) == {p \in ProductsSeen(s) : p.product_id = product_id}

\* SELECT COUNT(*) FROM products WHERE product_code = %s AND product_id != COALESCE(%s, 0)
CountByCode(s, code) ==
    Cardinality({p \in ProductsSeen(s) : p.product_code = code /\ p.product_id # 0})

\* a commit that replaces the ledger by the transaction's rows
connection_commit_replacing(s) ==
    /\ products' = ApplyStock(products \cup pending[s].products, pending[s].stock)
    /\ movements' = pending[s].movements
    /\ created' = created \cup pending[s].products
    /\ pending' = [pending EXCEPT ![s] = NoPending]

\* connection.commit(): the session's uncommitted writes become durable
connection_commit(s) ==
    /\ products' = ApplyStock(products \cup pending[s].products, pending[s].stock)
    /\ movements' = movements \cup pending[s].movements
    /\ created' = created \cup pending[s].products
    /\ pending' = [pending EXCEPT ![s] = NoPending]

\* connection.rollback(): the session's uncommitted writes are discarded
connection_rollback(s) ==
    /\ pending' = [pending EXCEPT ![s] = NoPending]
    /\ UNCHANGED <<products, movements, created>>

\* cursor.execute of a write statement: durable at once under autocommit,
\* otherwise part of the session's open transaction
cursor_execute(s, w) ==
    IF autocommit[s]
    THEN /\ products' = ApplyStock(products \cup w.products, w.stock)
         /\ movements' = movements \cup w.movements
         /\ created' = created \cup w.products
         /\ UNCHANGED pending
    ELSE /\ pending' = [pending EXCEPT ![s] =
                [products |-> @.products \cup w.products,
                 movements |-> @.movements \cup w.movements,
                 stock |-> {u \in @.stock :
                               \A v \in w.stock : v.product_id # u.product_id}
                           \cup w.stock]]
         /\ UNCHANGED <<products, movements, created>>

\* An UPDATE waits while another session holds the row with an uncommitted UPDATE.
RowLocked(s, product_id) ==
    \E t \in Sessions \ {s} : \E u \in pending[t].stock : u.product_id = product_id


\* ------------------------------------------------------------ inputs
\* Product objects that pass Product.validate ...
BaseProduct == [product_id |-> 0, product_name |-> <<"P">>,
                product_code |-> <<"S", "1">>, unit_price |-> 2,
                current_stock |-> 1, minimum_stock |-> 1, maximum_stock |-> 3,
                is_active |-> TRUE, category_id |-> NULL, supplier_id |-> NULL]

ValidProducts ==
    {BaseProduct,
     [BaseProduct EXCEPT !.product_name = <<"Q">>, !.product_code = <<"S", "2">>,
                         !.current_stock = 0]}

\* ... and one object for each way of failing it.
InvalidProducts ==
    {[BaseProduct EXCEPT !.product_name = <<>>],
     [BaseProduct EXCEPT !.product_name = <<Blank, Blank>>],
     [BaseProduct EXCEPT !.product_code = <<>>],
     [BaseProduct EXCEPT !.product_code = <<Blank>>],
     [BaseProduct EXCEPT !.unit_price = 0],
     [BaseProduct EXCEPT !.current_stock = 0 - 1],
     [BaseProduct EXCEPT !.minimum_stock = 0 - 1],
     [BaseProduct EXCEPT !.maximum_stock = 1]}

\* The Product objects handed to create_product.
ProductInputs == ValidProducts \cup InvalidProducts

\* The quantities offered to create_stock_movement.
Quantities == {1, 2}

\* StockMovement objects that pass StockMovement.validate ...
ValidMovements ==
    [movement_id : {0}, product_id : 1 .. MaxProducts,
     movement_type : ValidTypes, quantity : Quantities]

\* ... and one object for each way of failing it.
BaseMovement == [movement_id |-> 0, product_id |-> 1, movement_type |-> "OUT",
                 quantity |-> 1]

InvalidMovements ==
    {[BaseMovement EXCEPT !.movement_type = "TRANSFER"],
     [BaseMovement EXCEPT !.quantity = 0],
     [BaseMovement EXCEPT !.quantity = 0 - 1],
     [BaseMovement EXCEPT !.product_id = 0]}

\* The StockMovement objects handed to create_stock_movement.
MovementInputs == ValidMovements \cup InvalidMovements

StoreInit ==
    /\ products = {}
    /\ movements = {}
    /\ next_product_id = 1
    /\ next_movement_id = 1
    /\ autocommit = [s \in Sessions |-> FALSE]
    /\ pending = [s \in Sessions |-> NoPending]
    /\ pc = [s \in Sessions |-> "idle"]
    /\ product = [s \in Sessions |-> NoProduct]
    /\ movement = [s \in Sessions |-> NoMovement]
    /\ new_stock = [s \in Sessions |-> 0]
    /\ last_insert_id = [s \in Sessions |-> 0]
    /\ result = [s \in Sessions |-> NoResult]
    /\ pre = [s \in Sessions |-> [products |-> {}, movements |-> {}]]
    /\ created = {}
    /\ calls = 0

\* The state after DatabaseManager() on an empty database; no report was asked for.
Init ==
    /\ StoreInit
    /\ report = NoReport
    /\ update_args = [s \in Sessions |-> NoArgs]
    /\ request = [s \in Sessions |-> NoRequest]

\* The call of session s ends: it returns or raises r.
Finish(s, r) ==
    /\ pc' = [pc EXCEPT ![s] = "done"]
    /\ result' = [result EXCEPT ![s] = r]

\* _execute_query's except branch: rollback, then DatabaseConnectionError
QueryFailed(s) == connection_rollback(s)

\* ------------------------------------------------------------ create_product
\* the duplicate check counting one match too few
DuplicateCode_off_by_one(s, code) == CountByCode(s, code) > 1

\* Table products as the store defines it.  The table definition is not among
\* the sources; after the design (4.2, 9) the store enforces no uniqueness of
\* product_code, and the pre-check of create_product is the only guard.
InsertRejectedByStore(s, row) == FALSE

\* the duplicate check of create_product: the code is already in use
DuplicateCode(s, code) == CountByCode(s, code) > 0

\* create_product is called: product.validate()
create_product_call(s, p) ==
    /\ pc[s] = "idle"
    /\ next_product_id <= MaxProducts
    /\ product' = [product EXCEPT ![s] = p]
    /\ pre' = [pre EXCEPT ![s] = [products |-> products, movements |-> movements]]
    /\ IF Product_validate(p)
       THEN /\ pc' = [pc EXCEPT ![s] = "cp_check"]
            /\ UNCHANGED result
       ELSE Finish(s, Raised("VALIDATION_ERROR", pc[s]))
    /\ UNCHANGED <<products, movements, next_product_id, next_movement_id,
                   autocommit, pending, movement, new_stock, last_insert_id, created>>

\* the duplicate-code SELECT COUNT(*) and its test
create_product_check(s, ok) ==
    /\ pc[s] = "cp_check"
    /\ IF ~ok
       THEN /\ QueryFailed(s)
            /\ Finish(s, Raised("DB_CONNECTION_ERROR", pc[s]))
       ELSE /\ UNCHANGED <<products, movements, created, pending>>
            /\ IF DuplicateCode(s, product[s].product_code)
               THEN Finish(s, [Raised("DUPLICATE_PRODUCT_CODE", pc[s]) EXCEPT
                                  !.product_code = product[s].product_code])
               ELSE /\ pc' = [pc EXCEPT ![s] = "cp_insert"]
                    /\ UNCHANGED result
    /\ UNCHANGED <<next_product_id, next_movement_id, autocommit, product,
                   movement, new_stock, last_insert_id, pre, calls, report, update_args, request>>

\* INSERT INTO products: cursor.execute
create_product_insert(s, ok) ==
    /\ pc[s] = "cp_insert"
    /\ IF ~ok \/ InsertRejectedByStore(s, product[s])
       THEN /\ QueryFailed(s)
            /\ Finish(s, Raised("DB_CONNECTION_ERROR", pc[s]))
            /\ UNCHANGED <<next_product_id, last_insert_id>>
       ELSE /\ cursor_execute(s, [NoPending EXCEPT !.products =
                    {[product[s] EXCEPT !.product_id = next_product_id]}])
            /\ next_product_id' = next_product_id + 1
            /\ last_insert_id' = [last_insert_id EXCEPT ![s] = next_product_id]
            /\ pc' = [pc EXCEPT ![s] = "cp_commit"]
            /\ UNCHANGED result
    /\ UNCHANGED <<next_movement_id, autocommit, product, movement, new_stock, pre,
                   calls, report, update_args, request>>

\* INSERT INTO products: connection.commit() and the returned last_insert_id
create_product_commit(s, ok) ==
    /\ pc[s] = "cp_commit"
    /\ IF ~ok
       THEN /\ QueryFailed(s)
            /\ Finish(s, Raised("DB_CONNECTION_ERROR", pc[s]))
       ELSE /\ connection_commit(s)
            /\ Finish(s, Returned(last_insert_id[s]))
    /\ UNCHANGED <<next_product_id, next_movement_id, autocommit, product,
                   movement, new_stock, last_insert_id, pre, calls, report, update_args, request>>

\* The caller has taken the result; the session is free for the next call.
Return(s) ==
    /\ pc[s] = "done"
    /\ ~(request[s].phase = "movement" /\ result[s].error_code = "OK")
    /\ pc' = [pc EXCEPT ![s] = "idle"]
    /\ result' = [result EXCEPT ![s] = NoResult]
    /\ product' = [product EXCEPT ![s] = NoProduct]
    /\ movement' = [movement EXCEPT ![s] = NoMovement]
    /\ new_stock' = [new_stock EXCEPT ![s] = 0]
    /\ last_insert_id' = [last_insert_id EXCEPT ![s] = 0]
    /\ pre' = [pre EXCEPT ![s] = [products |-> {}, movements |-> {}]]
    /\ update_args' = [update_args EXCEPT ![s] = NoArgs]
    /\ request' = [request EXCEPT ![s] = NoRequest]
    /\ UNCHANGED <<products, movements, next_product_id, next_movement_id,
                   autocommit, pending, created, calls, report>>


\* ------------------------------------------------------------ create_stock_movement
\* the sufficiency test with <= for <
InsufficientStock_off_by_one(stock) == stock <= 0

\* the sufficiency test of create_stock_movement
InsufficientStock(stock) == stock < 0

\* create_stock_movement is called: movement.validate(), then autocommit = False
create_stock_movement_call(s, m) ==
    /\ pc[s] = "idle"
    /\ next_movement_id <= MaxMovements
    /\ movement' = [movement EXCEPT ![s] = m]
    /\ pre' = [pre EXCEPT ![s] = [products |-> products, movements |-> movements]]
    /\ IF StockMovement_validate(m)
       THEN /\ autocommit' = [autocommit EXCEPT ![s] = FALSE]
            /\ pc' = [pc EXCEPT ![s] = "csm_get_product"]
            /\ UNCHANGED result
       ELSE /\ Finish(s, Raised("VALIDATION_ERROR", pc[s]))
            /\ UNCHANGED autocommit
    /\ UNCHANGED <<products, movements, next_product_id, next_movement_id,
                   pending, product, new_stock, last_insert_id, created>>

\* get_product_by_id, get_stock_change, new_stock and the sufficiency test;
\* an exception leads to the except branch
create_stock_movement_get_product(s, ok) ==
    /\ pc[s] = "csm_get_product"
    /\ IF ~ok
       THEN /\ QueryFailed(s)
            /\ result' = [result EXCEPT ![s] = Raised("DB_CONNECTION_ERROR", pc[s])]
            /\ pc' = [pc EXCEPT ![s] = "csm_except"]
            /\ UNCHANGED new_stock
       ELSE /\ UNCHANGED <<products, movements, created, pending>>
            /\ LET found == SelectProduct(s, movement[s].product_id) IN
               IF found = {}
               THEN /\ result' = [result EXCEPT ![s] = Raised("PRODUCT_NOT_FOUND", pc[s])]
                    /\ pc' = [pc EXCEPT ![s] = "csm_except"]
                    /\ UNCHANGED new_stock
               ELSE LET row == CHOOSE p \in found : TRUE
                        stock_change == get_stock_change(movement[s])
                    IN /\ new_stock' = [new_stock EXCEPT ![s] =
                                           row.current_stock + stock_change]
                       /\ IF InsufficientStock(row.current_stock + stock_change)
                          THEN /\ result' = [result EXCEPT ![s] =
                                     [Raised("INSUFFICIENT_STOCK", pc[s]) EXCEPT
                                         !.product_name = row.product_name,
                                         !.available = row.current_stock,
                                         !.requested = abs(stock_change)]]
                               /\ pc' = [pc EXCEPT ![s] = "csm_except"]
                          ELSE /\ pc' = [pc EXCEPT ![s] = "csm_insert"]
                               /\ UNCHANGED result
    /\ UNCHANGED <<next_product_id, next_movement_id, autocommit, product,
                   movement, last_insert_id, pre, calls, report, update_args, request>>

\* INSERT INTO stock_movements: cursor.execute
create_stock_movement_insert(s, ok) ==
    /\ pc[s] = "csm_insert"
    /\ IF ~ok
       THEN /\ QueryFailed(s)
            /\ result' = [result EXCEPT ![s] = Raised("DB_CONNECTION_ERROR", pc[s])]
            /\ pc' = [pc EXCEPT ![s] = "csm_except"]
            /\ UNCHANGED <<next_movement_id, last_insert_id>>
       ELSE /\ cursor_execute(s, [NoPending EXCEPT !.movements =
                    {[movement[s] EXCEPT !.movement_id = next_movement_id]}])
            /\ next_movement_id' = next_movement_id + 1
            /\ last_insert_id' = [last_insert_id EXCEPT ![s] = next_movement_id]
            /\ pc' = [pc EXCEPT ![s] = "csm_insert_commit"]
            /\ UNCHANGED result
    /\ UNCHANGED <<next_product_id, autocommit, product, movement, new_stock, pre,
                   calls, report, update_args, request>>

\* INSERT INTO stock_movements: the connection.commit() of _execute_query
create_stock_movement_insert_commit(s, ok) ==
    /\ pc[s] = "csm_insert_commit"
    /\ IF ~ok
       THEN /\ QueryFailed(s)
            /\ result' = [result EXCEPT ![s] = Raised("DB_CONNECTION_ERROR", pc[s])]
            /\ pc' = [pc EXCEPT ![s] = "csm_except"]
       ELSE /\ connection_commit(s)
            /\ pc' = [pc EXCEPT ![s] = "csm_update_get_product"]
            /\ UNCHANGED result
    /\ UNCHANGED <<next_product_id, next_movement_id, autocommit, product,
                   movement, new_stock, last_insert_id, pre, calls, report, update_args, request>>

\* update_product_stock: get_product_by_id and the new_stock < 0 test
create_stock_movement_update_get_product(s, ok) ==
    /\ pc[s] = "csm_update_get_product"
    /\ IF ~ok
       THEN /\ QueryFailed(s)
            /\ result' = [result EXCEPT ![s] = Raised("DB_CONNECTION_ERROR", pc[s])]
            /\ pc' = [pc EXCEPT ![s] = "csm_except"]
       ELSE /\ UNCHANGED <<products, movements, created, pending>>
            /\ IF SelectProduct(s, movement[s].product_id) = {}
               THEN /\ result' = [result EXCEPT ![s] = Raised("PRODUCT_NOT_FOUND", pc[s])]
                    /\ pc' = [pc EXCEPT ![s] = "csm_except"]
               ELSE IF new_stock[s] < 0
               THEN /\ result' = [result EXCEPT ![s] = Raised("VALIDATION_ERROR", pc[s])]
                    /\ pc' = [pc EXCEPT ![s] = "csm_except"]
               ELSE /\ pc' = [pc EXCEPT ![s] = "csm_update"]
                    /\ UNCHANGED result
    /\ UNCHANGED <<next_product_id, next_movement_id, autocommit, product,
                   movement, new_stock, last_insert_id, pre, calls, report, update_args, request>>

\* update_product_stock: UPDATE products SET current_stock, cursor.execute
create_stock_movement_update(s, ok) ==
    /\ pc[s] = "csm_update"
    /\ IF ~ok
       THEN /\ QueryFailed(s)
            /\ result' = [result EXCEPT ![s] = Raised("DB_CONNECTION_ERROR", pc[s])]
            /\ pc' = [pc EXCEPT ![s] = "csm_except"]
       ELSE /\ ~RowLocked(s, movement[s].product_id)
            /\ cursor_execute(s, [NoPending EXCEPT !.stock =
                    {[product_id |-> movement[s].product_id,
                      current_stock |-> new_stock[s]]}])
            /\ pc' = [pc EXCEPT ![s] = "csm_update_commit"]
            /\ UNCHANGED result
    /\ UNCHANGED <<next_product_id, next_movement_id, autocommit, product,
                   movement, new_stock, last_insert_id, pre, calls, report, update_args, request>>

\* update_product_stock: the connection.commit() of _execute_query
create_stock_movement_update_commit(s, ok) ==
    /\ pc[s] = "csm_update_commit"
    /\ IF ~ok
       THEN /\ QueryFailed(s)
            /\ result' = [result EXCEPT ![s] = Raised("DB_CONNECTION_ERROR", pc[s])]
            /\ pc' = [pc EXCEPT ![s] = "csm_except"]
       ELSE /\ connection_commit(s)
            /\ pc' = [pc EXCEPT ![s] = "csm_return"]
            /\ UNCHANGED result
    /\ UNCHANGED <<next_product_id, next_movement_id, autocommit, product,
                   movement, new_stock, last_insert_id, pre, calls, report, update_args, request>>

\* self.connection.commit(); return movement_id; finally autocommit = True.
\* A failing commit raises mysql.connector.Error into the except branch.
create_stock_movement_return(s, ok) ==
    /\ pc[s] = "csm_return"
    /\ IF ~ok
       THEN /\ UNCHANGED <<products, movements, created, pending, autocommit>>
            /\ result' = [result EXCEPT ![s] = Raised("MYSQL_ERROR", pc[s])]
            /\ pc' = [pc EXCEPT ![s] = "csm_except"]
       ELSE /\ connection_commit(s)
            /\ autocommit' = [autocommit EXCEPT ![s] = TRUE]
            /\ Finish(s, Returned(last_insert_id[s]))
    /\ UNCHANGED <<next_product_id, next_movement_id, product, movement,
                   new_stock, last_insert_id, pre, calls, report, update_args, request>>

\* the except branch without the finally clause
create_stock_movement_except_no_finally(s) ==
    /\ pc[s] = "csm_except"
    /\ connection_rollback(s)
    /\ pc' = [pc EXCEPT ![s] = "done"]
    /\ UNCHANGED <<next_product_id, next_movement_id, autocommit, product, movement,
                   new_stock, last_insert_id, result, pre, calls, report, update_args,
                   request>>

\* except: self.connection.rollback(); raise e; finally autocommit = True
create_stock_movement_except(s) ==
    /\ pc[s] = "csm_except"
    /\ connection_rollback(s)
    /\ autocommit' = [autocommit EXCEPT ![s] = TRUE]
    /\ pc' = [pc EXCEPT ![s] = "done"]
    /\ UNCHANGED <<next_product_id, next_movement_id, product, movement,
                   new_stock, last_insert_id, result, pre, calls, report, update_args, request>>

\* ------------------------------------------------------------ update_product_stock
\* DatabaseManager.update_product_stock called on its own (it is a public
\* method; create_stock_movement is its only caller inside the repository).
update_product_stock_call(s, product_id, stock) ==
    /\ pc[s] = "idle"
    /\ calls < MaxCalls
    /\ calls' = calls + 1
    /\ update_args' = [update_args EXCEPT ![s] =
                          [product_id |-> product_id, new_stock |-> stock]]
    /\ pre' = [pre EXCEPT ![s] = [products |-> products, movements |-> movements]]
    /\ pc' = [pc EXCEPT ![s] = "ups_get_product"]
    /\ UNCHANGED <<products, movements, next_product_id, next_movement_id,
                   autocommit, pending, product, movement, new_stock,
                   last_insert_id, result, created, report, request>>

\* get_product_by_id and the new_stock < 0 test
update_product_stock_get_product(s, ok) ==
    /\ pc[s] = "ups_get_product"
    /\ IF ~ok
       THEN /\ QueryFailed(s)
            /\ Finish(s, Raised("DB_CONNECTION_ERROR", pc[s]))
       ELSE /\ UNCHANGED <<products, movements, created, pending>>
            /\ IF SelectProduct(s, update_args[s].product_id) = {}
               THEN Finish(s, Raised("PRODUCT_NOT_FOUND", pc[s]))
               ELSE IF update_args[s].new_stock < 0
               THEN Finish(s, Raised("VALIDATION_ERROR", pc[s]))
               ELSE /\ pc' = [pc EXCEPT ![s] = "ups_update"]
                    /\ UNCHANGED result
    /\ UNCHANGED <<next_product_id, next_movement_id, autocommit, product,
                   movement, new_stock, last_insert_id, pre, calls, report,
                   update_args, request>>

\* UPDATE products SET current_stock: cursor.execute
update_product_stock_update(s, ok) ==
    /\ pc[s] = "ups_update"
    /\ IF ~ok
       THEN /\ QueryFailed(s)
            /\ Finish(s, Raised("DB_CONNECTION_ERROR", pc[s]))
       ELSE /\ ~RowLocked(s, update_args[s].product_id)
            /\ cursor_execute(s, [NoPending EXCEPT !.stock =
                    {[product_id |-> update_args[s].product_id,
                      current_stock |-> update_args[s].new_stock]}])
            /\ pc' = [pc EXCEPT ![s] = "ups_commit"]
            /\ UNCHANGED result
    /\ UNCHANGED <<next_product_id, next_movement_id, autocommit, product,
                   movement, new_stock, last_insert_id, pre, calls, report,
                   update_args, request>>

\* the connection.commit() of _execute_query; update_product_stock returns True
update_product_stock_commit(s, ok) ==
    /\ pc[s] = "ups_commit"
    /\ IF ~ok
       THEN /\ QueryFailed(s)
            /\ Finish(s, Raised("DB_CONNECTION_ERROR", pc[s]))
       ELSE /\ connection_commit(s)
            /\ Finish(s, Returned(0))
    /\ UNCHANGED <<next_product_id, next_movement_id, autocommit, product,
                   movement, new_stock, last_insert_id, pre, calls, report,
                   update_args, request>>

\* ------------------------------------------------------------ specifications
\* One statement of the call in progress in session s; ok = FALSE is the
\* statement failing with mysql.connector.Error.
Step(s, ok) ==
    \/ create_product_check(s, ok)
    \/ create_product_insert(s, ok)
    \/ create_product_commit(s, ok)
    \/ create_stock_movement_get_product(s, ok)
    \/ create_stock_movement_insert(s, ok)
    \/ create_stock_movement_insert_commit(s, ok)
    \/ create_stock_movement_update_get_product(s, ok)
    \/ create_stock_movement_update(s, ok)
    \/ create_stock_movement_update_commit(s, ok)
    \/ create_stock_movement_return(s, ok)
    \/ create_stock_movement_except(s)
    \/ Return(s)

\* One application process: a single DatabaseManager (main.py keeps one
\* db_manager), whose request handlers run to completion one after the other,
\* so its calls never overlap.  Every statement may fail.
App == 1

Next ==
    \/ \E p \in ProductInputs : create_product_call(App, p) /\ UNCHANGED <<calls, report, update_args, request>>
    \/ \E m \in MovementInputs : create_stock_movement_call(App, m) /\ UNCHANGED <<calls, report, update_args, request>>
    \/ \E ok \in BOOLEAN : Step(App, ok)

Spec == Init /\ [][Next]_vars

\* Two application processes on the same store: a call may start while the
\* call of the other session is in progress, and the two interleave statement
\* by statement.  At most MaxCalls calls are started.
ConcCall(s) ==
    /\ calls < MaxCalls
    /\ calls' = calls + 1
    /\ UNCHANGED <<report, update_args, request>>
    /\ \/ \E p \in ProductInputs : create_product_call(s, p)
       \/ \E m \in MovementInputs : create_stock_movement_call(s, m)

ConcNext ==
    \E s \in Sessions :
        \/ ConcCall(s)
        \/ \E ok \in BOOLEAN : Step(s, ok)

ConcSpec == Init /\ [][ConcNext]_vars

\* The stock values handed to a direct update_product_stock call.
StockInputs == {0 - 1, 0, 3}

\* The core called as a library: besides the calls the HTTP layer makes, a
\* caller holding the DatabaseManager calls update_product_stock itself.
CoreNext ==
    \/ Next
    \/ \E id \in 1 .. MaxProducts : \E n \in StockInputs :
           update_product_stock_call(App, id, n)
    \/ \E ok \in BOOLEAN :
           \/ update_product_stock_get_product(App, ok)
           \/ update_product_stock_update(App, ok)
           \/ update_product_stock_commit(App, ok)

CoreSpec == Init /\ [][CoreNext]_vars

\* ------------------------------------------------------------ PUT /products/{id}/stock
\* the movement built from a stock update, with the quantity passed on unchanged
StockUpdateMovement_no_abs(product_id, quantity) ==
    [movement_id |-> 0, product_id |-> product_id,
     movement_type |-> IF quantity > 0 THEN "IN" ELSE "OUT",
     quantity |-> quantity]

\* main.update_product_stock: the StockMovement built from the requested quantity
StockUpdateMovement(product_id, quantity) ==
    [movement_id |-> 0, product_id |-> product_id,
     movement_type |-> IF quantity > 0 THEN "IN" ELSE "OUT",
     quantity |-> IF quantity > 0 THEN quantity ELSE abs(quantity)]

\* The quantities of StockUpdateRequest bodies.
StockUpdates == {0 - 2, 0 - 1, 0, 1, 2}

\* The handler is entered; the path parameter product_id is > 0.
put_product_stock_call(s, product_id, quantity) ==
    /\ pc[s] = "idle"
    /\ next_movement_id <= MaxMovements
    /\ request' = [request EXCEPT ![s] =
                      [NoRequest EXCEPT !.phase = "lookup", !.product_id = product_id,
                                        !.quantity = quantity]]
    /\ pre' = [pre EXCEPT ![s] = [products |-> products, movements |-> movements]]
    /\ pc' = [pc EXCEPT ![s] = "put_get_product"]
    /\ UNCHANGED <<products, movements, next_product_id, next_movement_id,
                   autocommit, pending, product, movement, new_stock,
                   last_insert_id, result, created, calls, report, update_args>>

\* product = db.get_product_by_id(product_id); the movement is built and
\* db.create_stock_movement(movement) is entered: validate(), autocommit = False
put_product_stock_get_product(s, ok) ==
    /\ pc[s] = "put_get_product"
    /\ IF ~ok
       THEN /\ QueryFailed(s)
            /\ Finish(s, Raised("DB_CONNECTION_ERROR", pc[s]))
            /\ UNCHANGED <<autocommit, movement, request>>
       ELSE /\ UNCHANGED <<products, movements, created, pending>>
            /\ LET found == SelectProduct(s, request[s].product_id) IN
               IF found = {}
               THEN /\ Finish(s, Raised("PRODUCT_NOT_FOUND", pc[s]))
                    /\ UNCHANGED <<autocommit, movement, request>>
               ELSE LET row == CHOOSE p \in found : TRUE
                        m == StockUpdateMovement(request[s].product_id,
                                                 request[s].quantity)
                    IN /\ request' = [request EXCEPT ![s].phase = "movement",
                                                     ![s].old_stock = row.current_stock]
                       /\ movement' = [movement EXCEPT ![s] = m]
                       /\ IF StockMovement_validate(m)
                          THEN /\ autocommit' = [autocommit EXCEPT ![s] = FALSE]
                               /\ pc' = [pc EXCEPT ![s] = "csm_get_product"]
                               /\ UNCHANGED result
                          ELSE /\ Finish(s, Raised("VALIDATION_ERROR", pc[s]))
                               /\ UNCHANGED autocommit
    /\ UNCHANGED <<next_product_id, next_movement_id, product, new_stock,
                   last_insert_id, pre, calls, report, update_args>>

\* create_stock_movement has returned an id:
\* updated_product = db.get_product_by_id(product_id); the response is built
put_product_stock_response(s, ok) ==
    /\ pc[s] = "done"
    /\ request[s].phase = "movement"
    /\ result[s].error_code = "OK"
    /\ IF ~ok
       THEN /\ QueryFailed(s)
            /\ result' = [result EXCEPT ![s] = Raised("DB_CONNECTION_ERROR", "put_response")]
            /\ request' = [request EXCEPT ![s].phase = "done"]
       ELSE /\ UNCHANGED <<products, movements, created, pending, result>>
            /\ LET found == SelectProduct(s, request[s].product_id)
                   row == CHOOSE p \in found : TRUE
               IN request' = [request EXCEPT ![s].phase = "done",
                                             ![s].new_stock = row.current_stock]
    /\ UNCHANGED <<next_product_id, next_movement_id, autocommit, pc, product,
                   movement, new_stock, last_insert_id, pre, calls, report,
                   update_args>>

\* Products are created and their stock is changed through the stock-update
\* endpoint.
HttpNext ==
    \/ \E p \in ProductInputs :
           create_product_call(App, p) /\ UNCHANGED <<calls, report, update_args, request>>
    \/ \E ok \in BOOLEAN : Step(App, ok)
    \/ \E id \in 1 .. MaxProducts : \E q \in StockUpdates :
           put_product_stock_call(App, id, q)
    \/ \E ok \in BOOLEAN :
           \/ put_product_stock_get_product(App, ok)
           \/ put_product_stock_response(App, ok)

HttpSpec == Init /\ [][HttpNext]_vars

TypeOK ==
    /\ next_product_id \in 1 .. (MaxProducts + Cardinality(Sessions))
    /\ next_movement_id \in 1 .. (MaxMovements + Cardinality(Sessions))
    /\ autocommit \in [Sessions -> BOOLEAN]
    /\ \A p \in products : p.product_id \in 1 .. (next_product_id - 1)
    /\ \A m \in movements : m.movement_id \in 1 .. (next_movement_id - 1)

\* ------------------------------------------------------------ stock status
\* is_low_stock with < for <=
is_low_stock_strict(p) == p.current_stock < p.minimum_stock

\* Product.is_low_stock
is_low_stock(p) == p.current_stock <= p.minimum_stock

\* Product.is_overstock
is_overstock(p) == p.current_stock >= p.maximum_stock

\* Product.get_stock_status
get_stock_status(p) ==
    IF is_low_stock(p) THEN "Low Stock"
    ELSE IF is_overstock(p) THEN "Overstock"
    ELSE "Normal"

\* ------------------------------------------------------------ SQL

RECURSIVE SumFn(_, _)
SumFn(f, S) ==
    IF S = {} THEN 0
    ELSE LET x == CHOOSE y \in S : TRUE IN f[x] + SumFn(f, S \ {x})

\* SUM(expr) over the rows DOMAIN f, expr of row r being f[r]: NULL over no rows
SUM(f) == IF DOMAIN f = {} THEN NULL ELSE <<SumFn(f, DOMAIN f)>>

\* ORDER BY key, ASC or DESC: any order of the rows S that respects the key
\* (rows with equal keys come in an order the store chooses)
OrderByAsc(S, key) ==
    {seq \in [1 .. Cardinality(S) -> S] :
        \A i, j \in 1 .. Cardinality(S) :
            i < j => seq[i] # seq[j] /\ key[seq[i]] <= key[seq[j]]}

OrderByDesc(S, key) ==
    {seq \in [1 .. Cardinality(S) -> S] :
        \A i, j \in 1 .. Cardinality(S) :
            i < j => seq[i] # seq[j] /\ key[seq[i]] >= key[seq[j]]}

\* LIMIT size OFFSET offset
Limit(seq, size, offset) ==
    SubSeq(seq, offset + 1, IF offset + size < Len(seq) THEN offset + size ELSE Len(seq))

\* The characters of the names in use, in collation order.
Ord(c) ==
    CASE c = Blank -> 32 [] c = "1" -> 49 [] c = "2" -> 50
      [] c = "P" -> 80 [] c = "Q" -> 81 [] c = "S" -> 83

\* The rank of a name among the names of the rows S under ORDER BY name.
RECURSIVE StrLess(_, _)
StrLess(a, b) ==
    IF b = <<>> THEN FALSE
    ELSE IF a = <<>> THEN TRUE
    ELSE IF Ord(Head(a)) # Ord(Head(b)) THEN Ord(Head(a)) < Ord(Head(b))
    ELSE StrLess(Tail(a), Tail(b))

NameRank(S) ==
    [r \in S |-> Cardinality({n \in {q.product_name : q \in S} : StrLess(n, r.product_name)})]

\* ------------------------------------------------------------ report queries
\* CASE WHEN ... END as stock_status of get_products_summary; the first WHEN
\* that holds decides
stock_status_column(p) ==
    CASE p.current_stock <= p.minimum_stock -> "Low Stock"
      [] p.current_stock > p.minimum_stock /\ p.current_stock >= p.maximum_stock -> "Overstock"
      [] OTHER -> "Normal"

\* Python's truth value of an Optional[int] argument: None and 0 are false.
Truthy(x) == x # NULL /\ x[1] # 0

\* get_products_summary: (results, total).  category_id and supplier_id are NULL
\* (None) or <<id>>; a filter is added to the WHERE clause when its argument
\* is true.
get_products_summary(rows, page, size, category_id, supplier_id, low_stock_only) ==
    LET selected == {p \in rows : /\ p.is_active
                                  /\ Truthy(category_id) => p.category_id = category_id
                                  /\ Truthy(supplier_id) => p.supplier_id = supplier_id
                                  /\ low_stock_only => p.current_stock <= p.minimum_stock}
        line(p) == [product_id |-> p.product_id, product_name |-> p.product_name,
                    category_id |-> p.category_id,
                    supplier_id |-> p.supplier_id,
                    is_active |-> p.is_active,
                    unit_price |-> p.unit_price,
                    current_stock |-> p.current_stock,
                    minimum_stock |-> p.minimum_stock,
                    maximum_stock |-> p.maximum_stock,
                    stock_value |-> p.current_stock * p.unit_price,
                    stock_status |-> stock_status_column(p)]
    IN {[items |-> [i \in DOMAIN page_rows |-> line(page_rows[i])],
         total |-> Cardinality(selected)] :
            page_rows \in {Limit(seq, size, (page - 1) * size) :
                              seq \in OrderByAsc(selected, NameRank(selected))}}

\* View low_stock_alert.  The view is defined in the database, not in the
\* sources; after the design (4.4): the active products with current_stock <=
\* minimum_stock, with their shortage and the investment it takes.
low_stock_alert(rows) ==
    {[product_id |-> p.product_id, product_name |-> p.product_name,
      product_code |-> p.product_code, current_stock |-> p.current_stock,
      minimum_stock |-> p.minimum_stock,
      shortage_quantity |-> p.minimum_stock - p.current_stock,
      unit_price |-> p.unit_price,
      required_investment |-> (p.minimum_stock - p.current_stock) * p.unit_price] :
        p \in {q \in rows : q.is_active /\ q.current_stock <= q.minimum_stock}}

\* get_low_stock_alerts with ORDER BY ... ASC
get_low_stock_alerts_ascending(rows) ==
    LET alerts == low_stock_alert(rows) IN
    OrderByAsc(alerts, [a \in alerts |-> a.shortage_quantity])

\* get_low_stock_alerts: SELECT * FROM low_stock_alert ORDER BY shortage_quantity DESC
get_low_stock_alerts(rows) ==
    LET alerts == low_stock_alert(rows) IN
    OrderByDesc(alerts, [a \in alerts |-> a.shortage_quantity])

\* get_stock_summary: one row of aggregates over table products
get_stock_summary(rows) ==
    [total_products |-> Cardinality(rows),
     active_products |-> SUM([p \in rows |-> IF p.is_active THEN 1 ELSE 0]),
     low_stock_products |->
         SUM([p \in rows |->
                 IF p.current_stock <= p.minimum_stock /\ p.is_active THEN 1 ELSE 0]),
     overstock_products |->
         SUM([p \in rows |->
                 IF p.current_stock >= p.maximum_stock /\ p.is_active THEN 1 ELSE 0]),
     total_stock_value |-> SUM([p \in rows |-> p.current_stock * p.unit_price])]

\* YEAR(), MONTH() of a movement_date
YEAR(d) == d.year
MONTH(d) == d.month

\* the WHERE clause of the monthly report without its YEAR test
InWindow_month_only(m, year, month) == MONTH(m.movement_date) = month

\* WHERE YEAR(sm.movement_date) = %s AND MONTH(sm.movement_date) = %s
InWindow(m, year, month) ==
    YEAR(m.movement_date) = year /\ MONTH(m.movement_date) = month

\* get_monthly_stock_report: stock_movements JOIN products, grouped by product
get_monthly_stock_report(rows, ledger, year, month) ==
    LET joined == {m \in ledger : /\ \E p \in rows : p.product_id = m.product_id
                                  /\ InWindow(m, year, month)}
        groups == {m.product_id : m \in joined}
        group(g) == {m \in joined : m.product_id = g}
        total(g, type) ==
            SUM([m \in group(g) |-> IF m.movement_type = type THEN m.quantity ELSE 0])
        line(g) == [product_name |-> (CHOOSE p \in rows : p.product_id = g).product_name,
                    total_in |-> total(g, "IN"),
                    total_out |-> total(g, "OUT"),
                    total_adjustments |-> total(g, "ADJUSTMENT"),
                    total_movements |-> Cardinality(group(g))]
        having == {g \in groups : Cardinality(group(g)) > 0}
    IN {[i \in DOMAIN seq |-> line(seq[i])] :
           seq \in OrderByDesc(having, [g \in having |-> Cardinality(group(g))])}

\* ------------------------------------------------------------ report inputs
\* Product rows as create_product stores them: valid, one name and code per id.
ReportRow(id, stock, minimum, active) ==
    [product_id |-> id,
     product_name |-> IF id = 1 THEN <<"P">> ELSE <<"Q">>,
     product_code |-> IF id = 1 THEN <<"S", "1">> ELSE <<"S", "2">>,
     unit_price |-> id + 1, current_stock |-> stock, minimum_stock |-> minimum,
     maximum_stock |-> 3, is_active |-> active,
     category_id |-> NULL, supplier_id |-> NULL]

\* Product rows with a category and a supplier, or without (NULL).
FilterRows(id) ==
    {[ReportRow(id, stock, 1, active) EXCEPT !.category_id = category,
                                             !.supplier_id = supplier] :
        stock \in {0, 2}, active \in BOOLEAN,
        category \in {NULL, <<1>>, <<2>>}, supplier \in {NULL, <<1>>}}

FilterCatalogues ==
    {one \cup two : one \in {{}} \cup {{r} : r \in FilterRows(1)},
                    two \in {{}} \cup {{r} : r \in FilterRows(2)}}

\* The category_id and supplier_id arguments of get_products_summary.
Filters == {NULL, <<0>>, <<1>>}

ReportRows(id) ==
    {ReportRow(id, stock, minimum, active) :
        stock \in 0 .. 3, minimum \in {1, 2}, active \in BOOLEAN}

\* Tables products of up to two rows.
Catalogues ==
    {one \cup two : one \in {{}} \cup {{r} : r \in ReportRows(1)},
                    two \in {{}} \cup {{r} : r \in ReportRows(2)}}

\* Product objects with any thresholds, stored or not.
StatusObjects ==
    {[BaseProduct EXCEPT !.current_stock = stock, !.minimum_stock = minimum,
                         !.maximum_stock = maximum] :
        stock \in 0 .. 3, minimum \in 0 .. 3, maximum \in 0 .. 3}

\* Rows of stock_movements with their movement_date, for the products of
\* LedgerCatalogue.
LedgerCatalogue == {ReportRow(1, 1, 1, TRUE), ReportRow(2, 0, 1, TRUE)}

MovementRow(id, product_id, type, quantity, year, month) ==
    [movement_id |-> id, product_id |-> product_id, movement_type |-> type,
     quantity |-> quantity, movement_date |-> [year |-> year, month |-> month]]

MovementPool ==
    {MovementRow(1, 1, "IN", 2, 2025, 12), MovementRow(2, 1, "OUT", 1, 2025, 12),
     MovementRow(3, 1, "ADJUSTMENT", 1, 2025, 12), MovementRow(4, 2, "IN", 1, 2025, 12),
     MovementRow(5, 2, "OUT", 2, 2024, 12), MovementRow(6, 2, "IN", 2, 2025, 11),
     MovementRow(7, 1, "IN", 1, 2024, 12), MovementRow(8, 2, "ADJUSTMENT", 2, 2025, 12)}

Windows == {[year |-> 2025, month |-> 12], [year |-> 2025, month |-> 11],
            [year |-> 2024, month |-> 12]}

ReportInputs ==
    {[NoReport EXCEPT !.products = c] : c \in Catalogues \cup FilterCatalogues}
    \cup {[NoReport EXCEPT !.product = o] : o \in StatusObjects}
    \cup {[NoReport EXCEPT !.products = LedgerCatalogue, !.movements = l,
                           !.year = w.year, !.month = w.month] :
             l \in SUBSET MovementPool, w \in Windows}

\* ------------------------------------------------------------ report calls
StoreVars == <<products, movements, next_product_id, next_movement_id, autocommit,
               pending, pc, product, movement, new_stock, last_insert_id, result,
               pre, created, calls, update_args, request>>

\* A report query ends: it returns out, or _execute_query raises
\* DatabaseConnectionError.
ReportedWith(op, ok, outs, args) ==
    /\ IF ok
       THEN \E out \in outs :
               report' = [report EXCEPT !.op = op, !.error_code = "OK", !.out = out,
                                        !.args = args]
       ELSE report' = [report EXCEPT !.op = op, !.error_code = "DB_CONNECTION_ERROR",
                                     !.args = args]
    /\ UNCHANGED StoreVars

Reported(op, ok, outs) == ReportedWith(op, ok, outs, <<>>)

\* product.get_stock_status() (Product.to_dict)
get_stock_status_call ==
    /\ report.op = "none"
    /\ Reported("get_stock_status", TRUE, {get_stock_status(report.product)})

get_products_summary_call(ok, page, size, category_id, supplier_id, low_stock_only) ==
    /\ report.op = "none"
    /\ ReportedWith("get_products_summary", ok,
                    get_products_summary(report.products, page, size, category_id,
                                         supplier_id, low_stock_only),
                    [page |-> page, size |-> size, category_id |-> category_id,
                     supplier_id |-> supplier_id, low_stock_only |-> low_stock_only])

get_low_stock_alerts_call(ok) ==
    /\ report.op = "none"
    /\ Reported("get_low_stock_alerts", ok, get_low_stock_alerts(report.products))

get_stock_summary_call(ok) ==
    /\ report.op = "none"
    /\ Reported("get_stock_summary", ok, {get_stock_summary(report.products)})

get_monthly_stock_report_call(ok) ==
    /\ report.op = "none"
    /\ Reported("get_monthly_stock_report", ok,
                get_monthly_stock_report(report.products, report.movements,
                                         report.year, report.month))

\* The report queries, each applied to a table drawn from ReportInputs.
ReportInit ==
    /\ StoreInit
    /\ update_args = [s \in Sessions |-> NoArgs]
    /\ request = [s \in Sessions |-> NoRequest]
    /\ report \in ReportInputs

ReportNext ==
    \/ get_stock_status_call
    \/ \E ok \in BOOLEAN : \E page \in {1, 2} : \E size \in {1, 10} :
          \E category_id \in Filters : \E supplier_id \in Filters :
          \E low_stock_only \in BOOLEAN :
              get_products_summary_call(ok, page, size, category_id, supplier_id,
                                        low_stock_only)
    \/ \E ok \in BOOLEAN : get_low_stock_alerts_call(ok)
    \/ \E ok \in BOOLEAN : get_stock_summary_call(ok)
    \/ \E ok \in BOOLEAN : get_monthly_stock_report_call(ok)

ReportSpec == ReportInit /\ [][ReportNext]_vars

\* ------------------------------------------------------------ reads of the store
\* the rows of products a statement reads, taken from what the session's
\* previous call started from
ProductsRead_cached(s) == pre[s].products

\* The rows a SELECT of session s reads from products ...
ProductsRead(s) == ProductsSeen(s)

\* ... and from stock_movements.
MovementsRead(s) == movements \cup pending[s].movements

\* The INSERT of create_stock_movement names no movement_date: the store sets
\* it.  Which date a row carries is left open.
Dates == {[year |-> 2025, month |-> 12], [year |-> 2025, month |-> 11]}

DatedLedgers(ms) ==
    {{MovementRow(m.movement_id, m.product_id, m.movement_type, m.quantity,
                  d[m].year, d[m].month) : m \in ms} : d \in [ms -> Dates]}

\* Product.to_dict; float() is exact on the prices and values in use.
Product_to_dict(p) ==
    [product_id |-> p.product_id, product_name |-> p.product_name,
     product_code |-> p.product_code, category_id |-> p.category_id,
     supplier_id |-> p.supplier_id, unit_price |-> p.unit_price,
     current_stock |-> p.current_stock, minimum_stock |-> p.minimum_stock,
     maximum_stock |-> p.maximum_stock, is_active |-> p.is_active,
     stock_status |-> get_stock_status(p),
     stock_value |-> p.unit_price * p.current_stock]

\* get_stock_movements: (results, total); product_id is NULL (None) or <<id>>
get_stock_movements(rows, ledger, product_id, page, size) ==
    LET where(m) == Truthy(product_id) => m.product_id = product_id[1]
        counted == {m \in ledger : where(m)}
        joined == {m \in counted : \E p \in rows : p.product_id = m.product_id}
        key == [m \in joined |-> YEAR(m.movement_date) * 12 + MONTH(m.movement_date)]
        line(m) ==
            LET p == CHOOSE q \in rows : q.product_id = m.product_id IN
            [movement_id |-> m.movement_id, product_id |-> m.product_id,
             movement_type |-> m.movement_type, quantity |-> m.quantity,
             movement_date |-> m.movement_date,
             product_name |-> p.product_name, product_code |-> p.product_code]
    IN {[items |-> [i \in DOMAIN page_rows |-> line(page_rows[i])],
         total |-> Cardinality(counted)] :
            page_rows \in {Limit(seq, size, (page - 1) * size) :
                              seq \in OrderByDesc(joined, key)}}

\* The results a query can give on the tables rows and ledger.
QueryResults(op, args, rows, ledger) ==
    CASE op = "get_low_stock_alerts" -> get_low_stock_alerts(rows)
      [] op = "get_stock_summary" -> {get_stock_summary(rows)}
      [] op = "get_products_summary" ->
             get_products_summary(rows, args.page, args.size, args.category_id,
                                  args.supplier_id, args.low_stock_only)
      [] op = "get_monthly_stock_report" ->
             UNION {get_monthly_stock_report(rows, l, args.year, args.month) :
                       l \in DatedLedgers(ledger)}
      [] op = "get_stock_movements" ->
             UNION {get_stock_movements(rows, l, args.product_id, args.page, args.size) :
                       l \in DatedLedgers(ledger)}
      [] op = "get_product_by_id" ->
             {Product_to_dict(p) : p \in {q \in rows : q.product_id = args.product_id}}

\* _execute_query(fetch=True) between two calls: cursor.execute and fetchall,
\* no commit; on an Error rollback and DatabaseConnectionError.  An empty
\* result of get_product_by_id is ProductNotFoundError.
Query(s, ok, op, args) ==
    /\ report.op = "none"
    /\ IF ~ok
       THEN /\ QueryFailed(s)
            /\ report' = [NoReport EXCEPT !.op = op, !.args = args,
                                          !.error_code = "DB_CONNECTION_ERROR"]
       ELSE /\ UNCHANGED <<products, movements, created, pending>>
            /\ LET outs == QueryResults(op, args, ProductsRead(s), MovementsRead(s)) IN
               IF outs = {}
               THEN report' = [NoReport EXCEPT !.op = op, !.args = args,
                                               !.error_code = "PRODUCT_NOT_FOUND"]
               ELSE \E out \in outs :
                       report' = [NoReport EXCEPT !.op = op, !.args = args,
                                                  !.error_code = "OK", !.out = out]
    /\ UNCHANGED <<next_product_id, next_movement_id, autocommit, pc, product,
                   movement, new_stock, last_insert_id, result, pre, calls,
                   update_args, request>>

get_product_by_id_query(s, ok, product_id) ==
    /\ pc[s] = "idle"
    /\ Query(s, ok, "get_product_by_id", [product_id |-> product_id])

get_products_summary_query(s, ok, low_stock_only) ==
    /\ pc[s] = "idle"
    /\ Query(s, ok, "get_products_summary",
             [page |-> 1, size |-> 10, category_id |-> NULL, supplier_id |-> NULL,
              low_stock_only |-> low_stock_only])

get_stock_movements_query(s, ok, product_id) ==
    /\ pc[s] = "idle"
    /\ Query(s, ok, "get_stock_movements",
             [product_id |-> product_id, page |-> 1, size |-> 10])

get_low_stock_alerts_query(s, ok) ==
    /\ pc[s] = "idle"
    /\ Query(s, ok, "get_low_stock_alerts", <<>>)

get_stock_summary_query(s, ok) ==
    /\ pc[s] = "idle"
    /\ Query(s, ok, "get_stock_summary", <<>>)

get_monthly_stock_report_query(s, ok, year, month) ==
    /\ pc[s] = "idle"
    /\ Query(s, ok, "get_monthly_stock_report", [year |-> year, month |-> month])

\* The result of a query has been taken by the caller.
QueryReturn ==
    /\ report.op # "none"
    /\ report' = NoReport
    /\ UNCHANGED StoreVars

\* The movements offered between the queries: IN and OUT of 1, and the
\* invalid ones.
ReadMovements ==
    {m \in MovementInputs :
        StockMovement_validate(m) => (m.quantity = 1 /\ m.movement_type # "ADJUSTMENT")}

\* Calls that write, with the queries between them.
ReadNext ==
    \/ /\ report.op = "none"
       /\ \E p \in ProductInputs : create_product_call(App, p)
       /\ UNCHANGED <<calls, report, update_args, request>>
    \/ /\ report.op = "none"
       /\ \E m \in ReadMovements : create_stock_movement_call(App, m)
       /\ UNCHANGED <<calls, report, update_args, request>>
    \/ \E ok \in BOOLEAN : Step(App, ok)
    \/ \E ok \in BOOLEAN :
           \/ \E id \in 1 .. MaxProducts : get_product_by_id_query(App, ok, id)
           \/ \E low_stock_only \in BOOLEAN :
                  get_products_summary_query(App, ok, low_stock_only)
           \/ \E id \in {NULL, <<1>>} : get_stock_movements_query(App, ok, id)
           \/ get_low_stock_alerts_query(App, ok)
           \/ get_stock_summary_query(App, ok)
           \/ \E d \in Dates : get_monthly_stock_report_query(App, ok, d.year, d.month)
    \/ QueryReturn

ReadSpec == Init /\ [][ReadNext]_vars

\* ------------------------------------------------------------ main.py: responses
\* status_codes with 400 for a duplicate product code
status_codes_duplicate_400 ==
    [code \in {"PRODUCT_NOT_FOUND", "SUPPLIER_NOT_FOUND", "CATEGORY_NOT_FOUND",
               "INSUFFICIENT_STOCK", "DUPLICATE_PRODUCT_CODE", "VALIDATION_ERROR",
               "DB_CONNECTION_ERROR"} |->
        CASE code \in {"PRODUCT_NOT_FOUND", "SUPPLIER_NOT_FOUND", "CATEGORY_NOT_FOUND"} -> 404
          [] code \in {"INSUFFICIENT_STOCK", "DUPLICATE_PRODUCT_CODE", "VALIDATION_ERROR"} -> 400
          [] code = "DB_CONNECTION_ERROR" -> 500]

\* status_codes of inventory_exception_handler
status_codes ==
    [code \in {"PRODUCT_NOT_FOUND", "SUPPLIER_NOT_FOUND", "CATEGORY_NOT_FOUND",
               "INSUFFICIENT_STOCK", "DUPLICATE_PRODUCT_CODE", "VALIDATION_ERROR",
               "DB_CONNECTION_ERROR"} |->
        CASE code \in {"PRODUCT_NOT_FOUND", "SUPPLIER_NOT_FOUND", "CATEGORY_NOT_FOUND"} -> 404
          [] code \in {"INSUFFICIENT_STOCK", "VALIDATION_ERROR"} -> 400
          [] code = "DUPLICATE_PRODUCT_CODE" -> 409
          [] code = "DB_CONNECTION_ERROR" -> 500]

\* The class of the exception a result of the core stands for: validate() and
\* update_product_stock raise ValueError, the commit of create_stock_movement
\* raises mysql.connector.Error, everything else is an InventoryException.
ExceptionClass(r) ==
    CASE r.error_code = "VALIDATION_ERROR" -> "ValueError"
      [] r.error_code = "MYSQL_ERROR" -> "mysql.connector.Error"
      [] OTHER -> "InventoryException"

\* @app.exception_handler(InventoryException)
inventory_exception_handler(error_code) ==
    [status_code |-> IF error_code \in DOMAIN status_codes
                     THEN status_codes[error_code] ELSE 500,
     success |-> FALSE, error_code |-> error_code]

\* @app.exception_handler(ValueError)
value_error_handler ==
    [status_code |-> 400, success |-> FALSE, error_code |-> "VALIDATION_ERROR"]

\* No handler is registered for any other exception: the framework answers 500.
unhandled_exception == [status_code |-> 500, success |-> FALSE, error_code |-> "NONE"]

\* The response of POST /products/ or POST /stock-movements/ to the call of
\* session s that has ended: 201 with success, or what the handler of the
\* raised exception returns.
Response(s) ==
    IF result[s].error_code = "OK"
    THEN [status_code |-> 201, success |-> TRUE, error_code |-> "NONE"]
    ELSE CASE ExceptionClass(result[s]) = "InventoryException" ->
                  inventory_exception_handler(result[s].error_code)
           [] ExceptionClass(result[s]) = "ValueError" -> value_error_handler
           [] OTHER -> unhandled_exception

\* ------------------------------------------------------------ properties
\* The call of session s has ended and its result has not been taken yet.
Done(s) == pc[s] = "done"

\* The ended call of session s is a create_stock_movement / create_product call.
MovementCall(s) == Done(s) /\ movement[s] # NoMovement
ProductCall(s) == Done(s) /\ product[s] # NoProduct

Succeeded(s) == result[s].error_code = "OK"
StorageFailure(s) == result[s].error_code \in {"DB_CONNECTION_ERROR", "MYSQL_ERROR"}

\* The committed store is as it was when the call of session s started.
StoreUntouched(s) == products = pre[s].products /\ movements = pre[s].movements

RowsOf(rows, product_id) == {p \in rows : p.product_id = product_id}
StockOf(rows, product_id) == (CHOOSE p \in rows : p.product_id = product_id).current_stock

\* The signed delta of a movement as the design states it.
SignedDelta(m) ==
    CASE m.movement_type = "IN" -> m.quantity
      [] m.movement_type = "OUT" -> 0 - m.quantity
      [] m.movement_type = "ADJUSTMENT" -> m.quantity

RECURSIVE SumOfDeltas(_)
SumOfDeltas(ms) ==
    IF ms = {} THEN 0
    ELSE LET m == CHOOSE x \in ms : TRUE IN SignedDelta(m) + SumOfDeltas(ms \ {m})

\* The movement row the ended call of session s stored, if it stored one.
RowStoredBy(s) == [movement[s] EXCEPT !.movement_id = last_insert_id[s]]

\* C1: in every reachable state every stored product has current_stock >= 0.
C1_NonNegativeStock == \A p \in products : p.current_stock >= 0

\* An OUT movement has been applied and has taken a product's stock to 0.
C1_Witness ==
    \E p \in products :
        /\ p.current_stock = 0
        /\ \E m \in movements : m.product_id = p.product_id /\ m.movement_type = "OUT"

\* C2: when the balance update of create_stock_movement fails with a storage
\* failure after the movement INSERT was executed, then once the call has
\* returned no movement record of that attempt is stored and no balance changed.
C2_Atomicity ==
    \A s \in Sessions :
        ( /\ MovementCall(s)
          /\ StorageFailure(s)
          /\ result[s].at \in {"csm_update_get_product", "csm_update",
                               "csm_update_commit"} )
        => /\ RowStoredBy(s) \notin movements
           /\ products = pre[s].products

\* C3: between calls, every product's current_stock is its current_stock at
\* creation plus the sum of the signed deltas of the movement records stored
\* for it.
C3_LedgerConsistency ==
    pc[App] \in {"idle", "done"} =>
        \A p \in products :
            p.current_stock =
                StockOf(created, p.product_id)
                + SumOfDeltas({m \in movements : m.product_id = p.product_id})

\* C4: when two create_stock_movement calls on the same product have both
\* succeeded and theirs are the only movement records added since the first of
\* them started, the balance is the balance at that start plus both signed
\* deltas, however the two calls were interleaved.
C4_NoLostUpdate ==
    \A s, t \in Sessions :
        ( /\ s # t
          /\ MovementCall(s) /\ Succeeded(s)
          /\ MovementCall(t) /\ Succeeded(t)
          /\ movement[s].product_id = movement[t].product_id
          /\ RowsOf(pre[s].products, movement[s].product_id) # {}
          /\ RowStoredBy(s) \notin pre[s].movements
          /\ RowStoredBy(t) \notin pre[s].movements
          /\ movements = pre[s].movements \cup {RowStoredBy(s), RowStoredBy(t)} )
        => StockOf(products, movement[s].product_id) =
               StockOf(pre[s].products, movement[s].product_id)
               + SignedDelta(movement[s]) + SignedDelta(movement[t])

\* C5: an OUT movement on an existing product, whose lookup did not fail, is
\* rejected with InsufficientStockError exactly when its quantity exceeds
\* current_stock; the error carries the product name, available = current_stock
\* and requested = quantity, and the rejection writes nothing; an OUT of exactly
\* current_stock that succeeds leaves 0.
C5_OutRejectedIffExceeds ==
    LET m == movement[App]
        rows == RowsOf(pre[App].products, m.product_id)
        r == result[App]
    IN ( /\ MovementCall(App)
         /\ StockMovement_validate(m)
         /\ m.movement_type = "OUT"
         /\ rows # {}
         /\ ~(StorageFailure(App) /\ r.at = "csm_get_product") )
       => LET row == CHOOSE p \in rows : TRUE IN
          /\ (r.error_code = "INSUFFICIENT_STOCK") <=> (m.quantity > row.current_stock)
          /\ r.error_code = "INSUFFICIENT_STOCK" =>
                /\ r.product_name = row.product_name
                /\ r.available = row.current_stock
                /\ r.requested = m.quantity
                /\ StoreUntouched(App)
          /\ (m.quantity = row.current_stock /\ Succeeded(App)) =>
                StockOf(products, m.product_id) = 0

\* An OUT of more than the stock on hand has been rejected.
C5_Witness ==
    /\ MovementCall(App)
    /\ movement[App].movement_type = "OUT"
    /\ result[App].error_code = "INSUFFICIENT_STOCK"
    /\ result[App].available = 1
    /\ result[App].requested = 2

\* C6: after a successful create_stock_movement the product's current_stock is
\* its value before the call plus quantity for IN and ADJUSTMENT, minus quantity
\* for OUT.
C6_BalanceAfterSuccess ==
    (MovementCall(App) /\ Succeeded(App)) =>
        LET m == movement[App] IN
        /\ RowsOf(products, m.product_id) # {}
        /\ StockOf(products, m.product_id) =
              StockOf(pre[App].products, m.product_id)
              + (IF m.movement_type = "OUT" THEN 0 - m.quantity ELSE m.quantity)

\* An OUT has succeeded on a product that had stock.
C6_Witness ==
    /\ MovementCall(App) /\ Succeeded(App)
    /\ movement[App].movement_type = "OUT"
    /\ StockOf(pre[App].products, movement[App].product_id) = 2
    /\ StockOf(products, movement[App].product_id) = 1

\* C7: a create_stock_movement call either adds exactly one movement record and
\* changes the balance of exactly the referenced product, or adds no movement
\* record and changes no balance; other products and earlier movement records
\* stay as they were.
C7_OneRowAndOneBalanceOrNone ==
    MovementCall(App) =>
        LET m == movement[App]
            before == pre[App]
        IN \/ StoreUntouched(App)
           \/ /\ pre[App].movements \subseteq movements
              /\ Cardinality(movements \ before.movements) = 1
              /\ \A x \in movements \ before.movements : x.product_id = m.product_id
              /\ \A p \in products :
                    p.product_id # m.product_id => p \in before.products
              /\ \A p \in before.products :
                    p.product_id # m.product_id => p \in products
              /\ RowsOf(products, m.product_id) # RowsOf(before.products, m.product_id)

\* C8: create_product with the code of an existing product fails with
\* DuplicateProductCodeError and inserts nothing; with a code no product has
\* it does not fail so, and when it succeeds the product is stored.
C8_DuplicateCodeRejected ==
    LET p == product[App]
        taken == \E q \in pre[App].products : q.product_code = p.product_code
        r == result[App]
    IN ( /\ ProductCall(App)
         /\ Product_validate(p)
         /\ ~(StorageFailure(App) /\ r.at = "cp_check") )
       => /\ taken <=> (r.error_code = "DUPLICATE_PRODUCT_CODE")
          /\ taken => StoreUntouched(App) /\ r.product_code = p.product_code
          /\ Succeeded(App) =>
                products = pre[App].products \cup {[p EXCEPT !.product_id = r.id]}

\* A second create_product with a code already stored has been rejected.
C8_Witness ==
    /\ ProductCall(App)
    /\ result[App].error_code = "DUPLICATE_PRODUCT_CODE"
    /\ \E q \in products : q.product_code = product[App].product_code

\* C9: no two stored products share a product_code, also when create_product
\* calls run concurrently.
C9_UniqueCodes ==
    \A p, q \in products : p.product_code = q.product_code => p.product_id = q.product_id

\* C10: create_stock_movement for a valid movement whose product_id names no
\* existing product fails with ProductNotFoundError (unless the lookup itself
\* fails) and writes nothing; it is the only way to that error.
C10_ProductNotFound ==
    LET m == movement[App]
        r == result[App]
    IN (MovementCall(App) /\ StockMovement_validate(m)) =>
          /\ RowsOf(pre[App].products, m.product_id) = {} =>
                /\ r.error_code \in {"PRODUCT_NOT_FOUND", "DB_CONNECTION_ERROR"}
                /\ r.error_code = "DB_CONNECTION_ERROR" => r.at = "csm_get_product"
                /\ StoreUntouched(App)
          /\ r.error_code = "PRODUCT_NOT_FOUND" =>
                RowsOf(pre[App].products, m.product_id) = {}

\* A movement for an id no product has was rejected while other products exist.
C10_Witness ==
    /\ MovementCall(App)
    /\ result[App].error_code = "PRODUCT_NOT_FOUND"
    /\ products # {}

\* C11: a movement whose type is not IN, OUT or ADJUSTMENT, whose quantity is
\* <= 0 or whose product_id is <= 0 is rejected with a validation error by the
\* first step of create_stock_movement: no statement is sent to the store for
\* it, and nothing is written.
C11_ValidationFirst ==
    LET m == movement[App]
        r == result[App]
        invalid == \/ m.movement_type \notin {"IN", "OUT", "ADJUSTMENT"}
                   \/ m.quantity <= 0
                   \/ m.product_id <= 0
    IN /\ (MovementCall(App) /\ invalid) =>
              /\ r.error_code = "VALIDATION_ERROR"
              /\ r.at = "idle"
              /\ StoreUntouched(App)
              /\ pending[App] = NoPending
       /\ (pc[App] \notin {"idle", "done"} /\ movement[App] # NoMovement) => ~invalid

\* A movement with product_id 0 was rejected as invalid, not as product-not-found,
\* while products are stored.
C11_Witness ==
    /\ MovementCall(App)
    /\ movement[App].product_id <= 0
    /\ result[App].error_code = "VALIDATION_ERROR"
    /\ products # {}

\* C12: a stored movement record is present, with the same field values, in
\* every later state: no step removes or changes one.
C12_AppendOnlyLedger == [][movements \subseteq movements']_vars

\* Two movement records are stored and the call that stored the second is over.
C12_Witness ==
    /\ Cardinality(movements) = 2
    /\ pc[App] = "idle"

\* C13: every step that changes the current_stock of a stored product is a step
\* of a create_stock_movement call on that product, taken when the movement
\* record of the call is already stored.
C13_StockChangedOnlyByLedger ==
    [][\A p \in products : \A q \in products' :
          (q.product_id = p.product_id /\ q.current_stock # p.current_stock) =>
              /\ pc[App] \in {"csm_update", "csm_update_commit"}
              /\ movement[App].product_id = p.product_id
              /\ RowStoredBy(App) \in movements]_vars

\* An IN movement has changed a balance and its record is stored.
C13_Witness ==
    /\ MovementCall(App) /\ Succeeded(App)
    /\ movement[App].movement_type = "IN"
    /\ RowStoredBy(App) \in movements
    /\ StockOf(products, movement[App].product_id) >
           StockOf(pre[App].products, movement[App].product_id)

\* C15: every stored product has maximum_stock > minimum_stock, with the
\* thresholds it was created with, and is never low-stock and overstock at once.
C15_ThresholdsOrdered ==
    \A p \in products :
        /\ p.maximum_stock > p.minimum_stock
        /\ \E c \in created : /\ c.product_id = p.product_id
                              /\ c.minimum_stock = p.minimum_stock
                              /\ c.maximum_stock = p.maximum_stock
        /\ ~(p.current_stock <= p.minimum_stock /\ p.current_stock >= p.maximum_stock)

\* Movements have taken a product from low stock up to its maximum_stock.
C15_Witness ==
    \E p \in products :
        /\ p.current_stock >= p.maximum_stock
        /\ StockOf(created, p.product_id) <= p.minimum_stock

\* The rules of create_product as the design states them.
ProductRules(p) ==
    /\ Len(strip(p.product_name)) > 0
    /\ Len(strip(p.product_code)) > 0
    /\ p.unit_price > 0
    /\ p.current_stock >= 0
    /\ p.minimum_stock >= 0
    /\ p.maximum_stock > p.minimum_stock

\* C16: create_product stores a product only if name and code are non-empty
\* after trimming, unit_price > 0, current_stock >= 0, minimum_stock >= 0 and
\* maximum_stock > minimum_stock; otherwise it fails with a validation error in
\* its first step, before the duplicate-code check, and inserts nothing.
C16_ProductValidation ==
    /\ (ProductCall(App) /\ ~ProductRules(product[App])) =>
           /\ result[App].error_code = "VALIDATION_ERROR"
           /\ result[App].at = "idle"
           /\ StoreUntouched(App)
    /\ pc[App] \in {"cp_check", "cp_insert", "cp_commit"} => ProductRules(product[App])
    /\ \A q \in products : ProductRules(q)

\* An invalid product carrying the code of a stored product was rejected as
\* invalid, not as a duplicate.
C16_Witness ==
    /\ ProductCall(App)
    /\ result[App].error_code = "VALIDATION_ERROR"
    /\ \E q \in products : q.product_code = product[App].product_code

\* The report query op has returned a result.
ReportOf(op) == report.op = op /\ report.error_code = "OK"

\* The classification of the design.
StockStatus(stock, minimum, maximum) ==
    IF stock <= minimum THEN "Low Stock"
    ELSE IF stock >= maximum THEN "Overstock"
    ELSE "Normal"

RECURSIVE SumOfValues(_, _)
SumOfValues(S, value) ==
    IF S = {} THEN 0
    ELSE LET r == CHOOSE x \in S : TRUE IN value[r] + SumOfValues(S \ {r}, value)

\* C17: get_stock_summary returns total_products = the number of products,
\* active_products = the number of active ones, low_stock_products and
\* overstock_products = the numbers of active products at or below minimum_stock
\* and at or above maximum_stock, total_stock_value = the sum of current_stock *
\* unit_price over all products.
C17_StockSummary ==
    ReportOf("get_stock_summary") =>
        LET rows == report.products
            active == {p \in rows : p.is_active}
        IN /\ report.out.total_products = Cardinality(rows)
           /\ report.out.active_products = <<Cardinality(active)>>
           /\ report.out.low_stock_products =
                 <<Cardinality({p \in active : p.current_stock <= p.minimum_stock})>>
           /\ report.out.overstock_products =
                 <<Cardinality({p \in active : p.current_stock >= p.maximum_stock})>>
           /\ report.out.total_stock_value =
                 <<SumOfValues(rows, [p \in rows |-> p.current_stock * p.unit_price])>>

\* The movements of product p dated in the window of the report.
MovementsInWindow(p) ==
    {m \in report.movements : /\ m.product_id = p.product_id
                              /\ m.movement_date.year = report.year
                              /\ m.movement_date.month = report.month}

\* The row the design states for product p.
MonthlyRow(p) ==
    LET ms == MovementsInWindow(p)
        sum(type) == SumOfValues({m \in ms : m.movement_type = type},
                                 [m \in ms |-> m.quantity])
    IN [product_name |-> p.product_name,
        total_in |-> <<sum("IN")>>,
        total_out |-> <<sum("OUT")>>,
        total_adjustments |-> <<sum("ADJUSTMENT")>>,
        total_movements |-> Cardinality(ms)]

\* C18: get_monthly_stock_report(year, month) returns one row for each product
\* with a movement dated in that year and month and none for any other product;
\* a row holds the sums of the product's IN, OUT and ADJUSTMENT quantities in
\* the window and the count of its movements there; rows come by
\* total_movements descending.
C18_MonthlyReport ==
    ReportOf("get_monthly_stock_report") =>
        LET out == report.out
            moved == {p \in report.products : MovementsInWindow(p) # {}}
        IN /\ Len(out) = Cardinality(moved)
           /\ \A p \in moved : \E i \in DOMAIN out : out[i] = MonthlyRow(p)
           /\ \A i \in DOMAIN out : \E p \in moved : out[i] = MonthlyRow(p)
           /\ \A i, j \in DOMAIN out :
                 i < j => out[i].total_movements >= out[j].total_movements

\* A report of two rows, the busier product first, while the ledger also holds
\* movements of another month and of the same month of another year.
C18_Witness ==
    /\ ReportOf("get_monthly_stock_report")
    /\ Len(report.out) = 2
    /\ report.out[1].total_movements > report.out[2].total_movements
    /\ \E m \in report.movements : m.movement_date.year # report.year
    /\ \E m \in report.movements : m.movement_date.month # report.month

\* C19: get_low_stock_alerts returns exactly the active products with
\* current_stock <= minimum_stock, each with shortage_quantity = minimum_stock -
\* current_stock and required_investment = shortage_quantity * unit_price, by
\* shortage_quantity descending.
C19_LowStockAlerts ==
    ReportOf("get_low_stock_alerts") =>
        LET out == report.out
            low == {p \in report.products :
                       p.is_active /\ p.current_stock <= p.minimum_stock}
        IN /\ Len(out) = Cardinality(low)
           /\ \A p \in low : \E i \in DOMAIN out :
                 /\ out[i].product_id = p.product_id
                 /\ out[i].shortage_quantity = p.minimum_stock - p.current_stock
                 /\ out[i].required_investment =
                       (p.minimum_stock - p.current_stock) * p.unit_price
           /\ \A i \in DOMAIN out : \E p \in low : out[i].product_id = p.product_id
           /\ \A i, j \in DOMAIN out :
                 i < j => out[i].shortage_quantity >= out[j].shortage_quantity

\* Two alerts, the larger shortage first, for a table that also holds no other
\* row: shortages 2 and 1.
C19_Witness ==
    /\ ReportOf("get_low_stock_alerts")
    /\ Len(report.out) = 2
    /\ report.out[1].shortage_quantity = 2
    /\ report.out[2].shortage_quantity = 1
    /\ report.out[1].required_investment = 2 * report.out[1].unit_price

\* C20: every failure of the core reaches the HTTP caller as a failure with its
\* own status: not-found 404, insufficient stock 400, duplicate product code
\* 409, a ValueError of a validate method 400, a storage failure 500; only a
\* call that succeeded is answered with success.
C20_StatusCodes ==
    /\ Done(App) =>
          LET code == result[App].error_code
              response == Response(App)
          IN /\ Succeeded(App) <=> response.success
             /\ Succeeded(App) <=> response.status_code < 400
             /\ code = "PRODUCT_NOT_FOUND" => response.status_code = 404
             /\ code = "INSUFFICIENT_STOCK" => response.status_code = 400
             /\ code = "DUPLICATE_PRODUCT_CODE" => response.status_code = 409
             /\ code = "VALIDATION_ERROR" => response.status_code = 400
             /\ StorageFailure(App) => response.status_code = 500
    /\ inventory_exception_handler("SUPPLIER_NOT_FOUND").status_code = 404
    /\ inventory_exception_handler("CATEGORY_NOT_FOUND").status_code = 404

\* A create_product call rejected for its duplicate code was answered 409.
C20_Witness ==
    /\ ProductCall(App)
    /\ result[App].error_code = "DUPLICATE_PRODUCT_CODE"
    /\ Response(App).status_code = 409
    /\ ~Response(App).success

\* C23: a validated ADJUSTMENT is additive: create_stock_movement never rejects
\* it for insufficient stock, and when it succeeds the product's current_stock
\* is its old value plus the quantity; only an OUT is rejected for insufficient
\* stock or leaves a balance lower than it was, and is_stock_decrease is true of
\* a validated movement exactly when its type is OUT.
C23_AdjustmentAdditive ==
    LET m == movement[App]
        r == result[App]
    IN (MovementCall(App) /\ StockMovement_validate(m)) =>
          /\ is_stock_decrease(m) <=> (m.movement_type = "OUT")
          /\ is_stock_increase(m) <=> (m.movement_type # "OUT")
          /\ m.movement_type = "ADJUSTMENT" =>
                /\ r.error_code # "INSUFFICIENT_STOCK"
                /\ Succeeded(App) =>
                      StockOf(products, m.product_id) =
                          StockOf(pre[App].products, m.product_id) + m.quantity
          /\ r.error_code = "INSUFFICIENT_STOCK" => m.movement_type = "OUT"
          /\ (\E p \in products : \E q \in pre[App].products :
                  p.product_id = q.product_id /\ p.current_stock < q.current_stock)
                => m.movement_type = "OUT"

\* An ADJUSTMENT of 2 has succeeded on a product whose stock was 0.
C23_Witness ==
    /\ MovementCall(App) /\ Succeeded(App)
    /\ movement[App].movement_type = "ADJUSTMENT"
    /\ movement[App].quantity = 2
    /\ StockOf(pre[App].products, movement[App].product_id) = 0
    /\ StockOf(products, movement[App].product_id) = 2

Answered(s) ==
    /\ Done(s)
    /\ request[s].phase # "none"
    /\ ~(request[s].phase = "movement" /\ Succeeded(s))

\* C25: PUT /products/{product_id}/stock applies a quantity > 0 as an IN of that
\* quantity and a quantity < 0 as an OUT of its absolute value; quantity 0 is
\* rejected with a validation error and writes nothing; a successful response
\* reports new_stock - old_stock = the requested quantity; for a product that
\* does not exist the answer is not-found (unless the lookup itself fails), no
\* movement is built and nothing is written.
C25_StockUpdate ==
    LET rq == request[App]
        r == result[App]
        m == movement[App]
        exists == RowsOf(pre[App].products, rq.product_id) # {}
    IN /\ (rq.phase # "none" /\ m # NoMovement) =>
              /\ exists
              /\ m.product_id = rq.product_id
              /\ rq.quantity > 0 => (m.movement_type = "IN" /\ m.quantity = rq.quantity)
              /\ rq.quantity < 0 =>
                    (m.movement_type = "OUT" /\ m.quantity = 0 - rq.quantity)
       /\ (Answered(App) /\ ~exists) =>
              /\ r.error_code \in {"PRODUCT_NOT_FOUND", "DB_CONNECTION_ERROR"}
              /\ r.at = "put_get_product"
              /\ m = NoMovement
              /\ StoreUntouched(App)
       /\ (Answered(App) /\ rq.quantity = 0) =>
              /\ StoreUntouched(App)
              /\ (exists /\ r.error_code # "DB_CONNECTION_ERROR") =>
                    (r.error_code = "VALIDATION_ERROR" /\ r.at = "put_get_product")
              /\ ~Succeeded(App)
       /\ (Answered(App) /\ Succeeded(App)) =>
              /\ rq.new_stock - rq.old_stock = rq.quantity
              /\ rq.new_stock = StockOf(products, rq.product_id)
              /\ rq.old_stock = StockOf(pre[App].products, rq.product_id)

\* A stock update of -1 on a product with stock 1 has been answered with
\* old_stock 1 and new_stock 0.
C25_Witness ==
    /\ Answered(App) /\ Succeeded(App)
    /\ request[App].quantity = 0 - 1
    /\ request[App].old_stock = 1
    /\ request[App].new_stock = 0
    /\ movement[App].movement_type = "OUT"

\* C26: get_products_summary returns only active products that match every
\* filter given (category_id, supplier_id, low_stock_only); with low_stock_only
\* every returned row has stock_status 'Low Stock'; every row's stock_value is
\* current_stock * unit_price; and total is the number of products matching
\* the filters, whatever page and size are.
C26_ProductsSummary ==
    ReportOf("get_products_summary") =>
        LET a == report.args
            matching ==
                {p \in report.products :
                    /\ p.is_active
                    /\ a.category_id # NULL => p.category_id = a.category_id
                    /\ a.supplier_id # NULL => p.supplier_id = a.supplier_id
                    /\ a.low_stock_only => p.current_stock <= p.minimum_stock}
        IN /\ \A i \in DOMAIN report.out.items :
                 LET r == report.out.items[i] IN
                 /\ \E p \in matching : p.product_id = r.product_id
                 /\ r.stock_value = r.current_stock * r.unit_price
                 /\ a.low_stock_only => r.stock_status = "Low Stock"
           /\ report.out.total = Cardinality(matching)

LookupOf(p) ==
    <<StockStatus(p.current_stock, p.minimum_stock, p.maximum_stock),
      p.current_stock * p.unit_price>>

\* C22: get_product_by_id returns the stock_status and stock_value of the
\* stored row, and a call that is not a successful movement on a product
\* leaves both as they were, so that two lookups of the product with no
\* successful movement on it in between return the same; in particular a
\* movement rejected as invalid, for a missing product or for insufficient
\* stock changes neither.
C22_IdempotentLookups ==
    /\ ReportOf("get_product_by_id") =>
          \E p \in products :
              /\ p.product_id = report.args.product_id
              /\ <<report.out.stock_status, report.out.stock_value>> = LookupOf(p)
    /\ Done(App) =>
          \A q \in pre[App].products :
              ~(MovementCall(App) /\ Succeeded(App)
                  /\ movement[App].product_id = q.product_id)
              => \E p \in products :
                     p.product_id = q.product_id /\ LookupOf(p) = LookupOf(q)

====
